---- MODULE Spec2Model ----
(***************************************************************************)
(* A model of jobs.py: seven job-source adapters, the aggregator main()    *)
(* and the Slack delivery (slack_post, send_blockkit_paginated).           *)
(*                                                                         *)
(* Python str values are TLA+ strings; the text operations the program     *)
(* uses (lower, in, replace, capitalize, join, re.findall, fromisoformat)  *)
(* are computed character by character.  Python None is the value None     *)
(* below, a text no modelled input contains.                               *)
(***************************************************************************)
EXTENDS Integers, Sequences, FiniteSets, TLC

\* Python's None (distinct from every string the model feeds the program).
None == "<None>"

\* Python truthiness of an optional string: None and "" are falsy.
Falsy(x) == x = None \/ x = ""

-----------------------------------------------------------------------------
(* Text primitives                                                         *)

Upper == "ABCDEFGHIJKLMNOPQRSTUVWXYZ"
Lowercase == "abcdefghijklmnopqrstuvwxyz"
Digits == "0123456789"

Min(a, b) == IF a <= b THEN a ELSE b

\* 1-based position of the one-character string c in alphabet, 0 if absent.
IndexIn(c, alphabet) ==
    LET hits == {k \in 1..Len(alphabet) : SubSeq(alphabet, k, k) = c}
    IN  IF hits = {} THEN 0 ELSE CHOOSE k \in hits : TRUE

\* The letters that change under lower(), and under upper(), with their images.
LowerOf ==
    [c \in {SubSeq(Upper, k, k) : k \in 1..Len(Upper)} |->
        SubSeq(Lowercase, IndexIn(c, Upper), IndexIn(c, Upper))]

UpperOf ==
    [c \in {SubSeq(Lowercase, k, k) : k \in 1..Len(Lowercase)} |->
        SubSeq(Upper, IndexIn(c, Lowercase), IndexIn(c, Lowercase))]

LowerChar(c) == IF c \in DOMAIN LowerOf THEN LowerOf[c] ELSE c

UpperChar(c) == IF c \in DOMAIN UpperOf THEN UpperOf[c] ELSE c

\* str.lower()
RECURSIVE lower(_)
lower(s) ==
    IF s = "" THEN ""
    ELSE LowerChar(SubSeq(s, 1, 1)) \o lower(SubSeq(s, 2, Len(s)))

\* str.capitalize(): first character upper-cased, the rest lower-cased.
capitalize(s) ==
    IF s = "" THEN ""
    ELSE UpperChar(SubSeq(s, 1, 1)) \o lower(SubSeq(s, 2, Len(s)))

\* Python's (k in s) on strings: k occurs as a contiguous substring of s.
Contains(s, k) ==
    \E p \in 1..(Len(s) - Len(k) + 1) : SubSeq(s, p, p + Len(k) - 1) = k

\* s[p:] starts with k (p is 1-based).
StartsAt(s, p, k) ==
    p + Len(k) - 1 <= Len(s) /\ SubSeq(s, p, p + Len(k) - 1) = k

\* str.replace(old, new) for a one-character old.
RECURSIVE replace(_, _, _)
replace(s, old, new) ==
    IF s = "" THEN ""
    ELSE (IF SubSeq(s, 1, 1) = old THEN new ELSE SubSeq(s, 1, 1))
         \o replace(SubSeq(s, 2, Len(s)), old, new)

\* sep.join(parts)
RECURSIVE join(_, _)
join(sep, parts) ==
    IF parts = <<>> THEN ""
    ELSE IF Len(parts) = 1 THEN parts[1]
    ELSE parts[1] \o sep \o join(sep, Tail(parts))

\* Python's {}: the dict with no key.
EmptyDict == <<>>

\* dict.get(key, default): the value under key, default when key is missing.
Get(d, key, default) == IF key \in DOMAIN d THEN d[key] ELSE default

-----------------------------------------------------------------------------
(* CONFIGURATION                                                           *)

HOURS_WINDOW == 48

ROLE_KEYWORDS ==
    << "aws cloud engineer", "aws cloud associate", "cloud engineer",
       "cloud associate", "devops engineer", "entry level devops",
       "cloud support associate", "cloud operations engineer",
       "infrastructure engineer" >>

LOCATIONS ==
    << "remote", "india", "bengaluru", "bangalore", "mysore", "chennai",
       "coimbatore", "kochi", "calicut", "kozhikode" >>

LINKEDIN_KEYWORDS ==
    << "AWS Cloud Engineer associate",
       "DevOps Engineer",
       "Cloud Support Associate",
       "Cloud Operations Engineer associate",
       "Infrastructure Engineer Associate" >>

NAUKRI_KEYWORDS == LINKEDIN_KEYWORDS

-----------------------------------------------------------------------------
(* FILTER HELPERS                                                          *)

\* matches_role(title, desc); the caller has already ruled out title = None,
\* for which title + " " raises TypeError.
matches_role(title, desc) ==
    LET text == lower(title \o " " \o (IF Falsy(desc) THEN "" ELSE desc))
    IN  \E k \in 1..Len(ROLE_KEYWORDS) : Contains(text, ROLE_KEYWORDS[k])

matches_location(loc) ==
    IF Falsy(loc) THEN FALSE
    ELSE LET l == lower(loc)
         IN  IF Contains(l, "remote") THEN TRUE
             ELSE \E k \in 1..Len(LOCATIONS) : Contains(l, LOCATIONS[k])

-----------------------------------------------------------------------------
(* datetime.fromisoformat, as the interpreter's datetime module parses a   *)
(* text: date YYYY-MM-DD, YYYYMMDD, YYYY-Www[-D] or YYYYWww[D]; then any   *)
(* one separator character and a time HH[[:]MM[[:]SS]] with an optional    *)
(* fraction after "." or "," and an optional zone Z, +HH[[:]MM[[:]SS[.f]]] *)
(* or the same after "-".  A parsed value is [ok, aware, days, secs,       *)
(* micros]: the day number from 0001-01-01, the second within it and the   *)
(* microsecond within that, shifted to UTC by the offset (secs and micros  *)
(* may leave their ranges; the three are only ever subtracted).            *)

\* The decimal value of a text of digits, -1 when a character is no digit.
RECURSIVE Num(_)
Num(s) ==
    IF s = "" THEN 0
    ELSE LET d    == IndexIn(SubSeq(s, Len(s), Len(s)), Digits)
             rest == Num(SubSeq(s, 1, Len(s) - 1))
         IN  IF d = 0 \/ rest < 0 THEN -1 ELSE 10 * rest + (d - 1)

IsLeap(y) == (y % 4 = 0 /\ y % 100 # 0) \/ y % 400 = 0

DaysInMonth(y, m) ==
    IF m = 2 THEN (IF IsLeap(y) THEN 29 ELSE 28)
    ELSE IF m \in {4, 6, 9, 11} THEN 30 ELSE 31

RECURSIVE DaysBeforeMonth(_, _)
DaysBeforeMonth(y, m) ==
    IF m = 1 THEN 0 ELSE DaysBeforeMonth(y, m - 1) + DaysInMonth(y, m - 1)

\* Days from 0001-01-01 to the first day of year y.
DaysBeforeYear(y) ==
    LET p == y - 1 IN 365 * p + (p \div 4) - (p \div 100) + (p \div 400)

ParseError == [ok |-> FALSE, aware |-> FALSE, days |-> 0, secs |-> 0, micros |-> 0]

\* The character of s at offset p (counted from 0); "" past the end.
CharAt(s, p) == IF p >= 0 /\ p < Len(s) THEN SubSeq(s, p + 1, p + 1) ELSE ""

is_digit(c) == c # "" /\ IndexIn(c, Digits) # 0

\* The value of the n digits of s at offset p, -1 when one of them is missing
\* or is no digit.
parse_digits(s, p, n) ==
    IF p + n > Len(s) THEN -1 ELSE Num(SubSeq(s, p + 1, p + n))

\* The day number of 9999-12-31, the last date there is.
MaxDay == DaysBeforeYear(10000) - 1

\* The offset at which the date ends, -1 when the text has no such place.
find_isoformat_datetime_separator(s) ==
    IF Len(s) = 7 THEN 7
    ELSE IF CharAt(s, 4) = "-"
    THEN IF CharAt(s, 5) = "W"
         THEN IF Len(s) > 8 /\ CharAt(s, 8) = "-"
              THEN IF Len(s) = 9 THEN -1
                   ELSE IF Len(s) > 10 /\ is_digit(CharAt(s, 10)) THEN 8
                   ELSE 10
              ELSE 8
         ELSE 10
    ELSE IF CharAt(s, 4) = "W"
    THEN LET stops == {k \in 7..Len(s) : ~is_digit(CharAt(s, k))}
             idx   == CHOOSE k \in stops : \A j \in stops : k <= j
         IN  IF idx < 9 THEN idx ELSE IF idx % 2 = 0 THEN 7 ELSE 8
    ELSE 8

\* Monday of the first ISO week of year y, as a day number.
iso_week1_monday(y) ==
    LET first_day     == DaysBeforeYear(y)
        first_weekday == first_day % 7
    IN  IF first_weekday > 3 THEN first_day - first_weekday + 7
        ELSE first_day - first_weekday

\* The day number of ISO year y, week w, day d; -1 when there is none.
iso_to_day(y, w, d) ==
    LET jan1 == DaysBeforeYear(y) % 7
        week_ok ==
            \/ w \in 1..52
            \/ w = 53 /\ (jan1 = 3 \/ (jan1 = 2 /\ IsLeap(y)))
        day == iso_week1_monday(y) + (w - 1) * 7 + (d - 1)
    IN  IF y < 1 \/ ~week_ok \/ ~(d \in 1..7) \/ day > MaxDay THEN -1 ELSE day

\* The day number the first len characters of s name, -1 when they name none.
parse_isoformat_date(s, len) ==
    LET y    == parse_digits(s, 0, 4)
        uses == CharAt(s, 4) = "-"
        p    == IF uses THEN 5 ELSE 4
    IN  IF y < 0 THEN -1
        ELSE IF CharAt(s, p) = "W"
        THEN LET w == parse_digits(s, p + 1, 2)
                 q == p + 3
                 r == IF uses THEN q + 1 ELSE q
                 d == IF q < len THEN parse_digits(s, r, 1) ELSE 1
             IN  IF w < 0 THEN -1
                 ELSE IF q < len /\ uses /\ CharAt(s, q) # "-" THEN -1
                 ELSE IF d < 0 THEN -1
                 ELSE iso_to_day(y, w, d)
        ELSE LET m == parse_digits(s, p, 2)
                 q == p + 2
                 r == IF uses THEN q + 1 ELSE q
                 d == parse_digits(s, r, 2)
             IN  IF m < 0 THEN -1
                 ELSE IF uses /\ CharAt(s, q) # "-" THEN -1
                 ELSE IF d < 0 THEN -1
                 ELSE IF y < 1 \/ ~(m \in 1..12) THEN -1
                 ELSE IF d < 1 \/ d > DaysInMonth(y, m) THEN -1
                 ELSE DaysBeforeYear(y) + DaysBeforeMonth(y, m) + (d - 1)

\* The fraction of s from offset p up to p_end: at most six digits count,
\* later digits are passed over.  rv is 0 at the end of the text, 1 before it.
parse_ff(s, p, p_end, vals) ==
    LET to_parse == Min(6, p_end - p)
        us       == parse_digits(s, p, to_parse)
        scale    == <<100000, 10000, 1000, 100, 10, 1>>
        rest     == {k \in (p + to_parse)..Len(s) : ~is_digit(CharAt(s, k))}
        stop     == CHOOSE k \in rest : \A j \in rest : k <= j
    IN  IF us < 0 THEN [rv |-> -3, vals |-> vals, us |-> 0]
        ELSE [rv |-> IF CharAt(s, stop) # "" THEN 1 ELSE 0, vals |-> vals,
              us |-> us * scale[to_parse]]

\* HH[[:]MM[[:]SS]] and a fraction, read from offset p of s up to p_end.
\* vals are the components read so far; rv is 0 when the text ends with the
\* last one read, 1 when more text follows, negative when nothing is parsed.
RECURSIVE parse_hh_mm_ss_ff(_, _, _, _, _)
parse_hh_mm_ss_ff(s, p, p_end, has_separator, vals) ==
    IF Len(vals) = 3 THEN parse_ff(s, p, p_end, vals)
    ELSE LET v   == parse_digits(s, p, 2)
             c   == CharAt(s, p + 2)
             q   == p + 3
             sep == IF vals = <<>> THEN c = ":" ELSE has_separator
             got == Append(vals, v)
         IN  IF v < 0 THEN [rv |-> -3, vals |-> vals, us |-> 0]
             ELSE IF q >= p_end
             THEN [rv |-> IF c # "" THEN 1 ELSE 0, vals |-> got, us |-> 0]
             ELSE IF sep /\ c = ":"
             THEN parse_hh_mm_ss_ff(s, q, p_end, sep, got)
             ELSE IF c = "." \/ c = "," THEN parse_ff(s, q, p_end, got)
             ELSE IF ~sep THEN parse_hh_mm_ss_ff(s, q - 1, p_end, sep, got)
             ELSE [rv |-> -4, vals |-> vals, us |-> 0]

\* Component k of a parsed time, 0 when the text stopped before it.
Comp(t, k) == IF k <= Len(t.vals) THEN t.vals[k] ELSE 0

NoTime == [ok |-> FALSE, aware |-> FALSE, secs |-> 0, micros |-> 0]

\* The offset of the first Z, + or - of s from offset p on; without one, the
\* end of the text (one past offset p when nothing is left to look at).
tzinfo_pos(s, p) ==
    LET marks == {k \in p..(Len(s) - 1) : CharAt(s, k) \in {"Z", "+", "-"}}
    IN  IF marks = {} THEN (IF Len(s) > p THEN Len(s) ELSE p + 1)
        ELSE CHOOSE k \in marks : \A j \in marks : k <= j

\* The time of day local (in seconds, with microsecond us) under the zone
\* parsed as z after the sign character.
time_in_zone(local, us, sign, z, off) ==
    IF z.rv # 0 THEN NoTime
    ELSE IF off = 0
    THEN [ok |-> TRUE, aware |-> TRUE, secs |-> local, micros |-> us]
    ELSE IF off >= 86400 THEN NoTime
    ELSE IF sign = "-"
    THEN [ok |-> TRUE, aware |-> TRUE, secs |-> local + off,
          micros |-> us + z.us]
    ELSE [ok |-> TRUE, aware |-> TRUE, secs |-> local - off,
          micros |-> us - z.us]

\* The seconds of a parsed HH, MM, SS.
Seconds(t) == (Comp(t, 1) * 60 + Comp(t, 2)) * 60 + Comp(t, 3)

\* The time parsed as t up to offset tz_at of s, with the zone that follows.
time_and_zone(s, tz_at, t) ==
    IF t.rv < 0 THEN NoTime
    ELSE IF ~(Comp(t, 1) <= 23 /\ Comp(t, 2) <= 59 /\ Comp(t, 3) <= 59)
    THEN NoTime
    ELSE IF tz_at >= Len(s)
    THEN IF t.rv = 1 THEN NoTime
         ELSE [ok |-> TRUE, aware |-> FALSE, secs |-> Seconds(t),
               micros |-> t.us]
    ELSE IF CharAt(s, tz_at) = "Z"
    THEN IF tz_at + 1 # Len(s) THEN NoTime
         ELSE [ok |-> TRUE, aware |-> TRUE, secs |-> Seconds(t),
               micros |-> t.us]
    ELSE time_in_zone(Seconds(t), t.us, CharAt(s, tz_at),
                      parse_hh_mm_ss_ff(s, tz_at + 1, Len(s), TRUE, <<>>),
                      Seconds(parse_hh_mm_ss_ff(s, tz_at + 1, Len(s), TRUE, <<>>)))

parse_time_to(s, p, tz_at) ==
    time_and_zone(s, tz_at, parse_hh_mm_ss_ff(s, p, tz_at, TRUE, <<>>))

\* The time of s from offset p to the end: [ok, aware, secs, micros], the
\* second of the day and its microsecond with the offset taken off.
parse_isoformat_time(s, p) == parse_time_to(s, p, tzinfo_pos(s, p))

\* The datetime of day number day at time t.
combine(day, t) ==
    IF day < 0 \/ ~t.ok THEN ParseError
    ELSE [ok |-> TRUE, aware |-> t.aware, days |-> day,
          secs |-> t.secs, micros |-> t.micros]

fromisoformat_from(s, separator_location) ==
    combine(IF separator_location < 0 THEN -1
            ELSE parse_isoformat_date(s, separator_location),
            IF Len(s) > separator_location
            THEN parse_isoformat_time(s, separator_location + 1)
            ELSE [ok |-> TRUE, aware |-> FALSE, secs |-> 0, micros |-> 0])

fromisoformat(s) ==
    IF Len(s) < 7 THEN ParseError
    ELSE fromisoformat_from(s, find_isoformat_datetime_separator(s))

\* a - b <= timedelta(hours = hours), for two parsed aware datetimes.  The
\* day difference is examined first, then the seconds, so that no product
\* leaves 32 bits.
AtMostHoursApart(a, b, hours) ==
    LET dd == a.days - b.days
    IN  IF dd > (hours \div 24) + 2 THEN FALSE
        ELSE IF dd < -2 THEN TRUE
        ELSE LET room == hours * 3600 - (dd * 86400 + (a.secs - b.secs))
             IN  IF room >= 2 THEN TRUE
                 ELSE IF room <= -2 THEN FALSE
                 ELSE a.micros - b.micros <= room * 1000000

\* within_hours(dt_str) evaluated when datetime.now(timezone.utc) is the
\* parsed aware value clock.  An unparsable text is a ValueError and a naive
\* datetime makes the subtraction a TypeError: the bare except returns False.
within_hours(dt_str, clock) ==
    IF Falsy(dt_str) THEN FALSE
    ELSE LET dt == fromisoformat(replace(dt_str, "Z", "+00:00"))
         IN  IF ~dt.ok \/ ~dt.aware THEN FALSE
             ELSE AtMostHoursApart(clock, dt, HOURS_WINDOW)

-----------------------------------------------------------------------------
(* re.findall                                                              *)

\* The least position q >= p at which text k occurs in s, 0 when none does.
\* The text is searched a stretch of 64 positions at a time.
RECURSIVE Find(_, _, _)
Find(s, k, p) ==
    LET last == Min(p + 63, Len(s))
        hits == {q \in p..last : StartsAt(s, q, k)}
    IN  IF p > Len(s) THEN 0
        ELSE IF hits = {} THEN Find(s, k, last + 1)
        ELSE CHOOSE q \in hits : \A h \in hits : q <= h

\* The position after the longest run of digits of s starting at p.
RECURSIVE DigitsEnd(_, _)
DigitsEnd(s, p) ==
    IF p <= Len(s) /\ IndexIn(SubSeq(s, p, p), Digits) # 0
    THEN DigitsEnd(s, p + 1) ELSE p

\* re.findall(pre + r'(\d+)', s) for a literal pre: the digit runs that follow
\* pre, scanning left to right past each match.
RECURSIVE FindAllDigits(_, _, _)
FindAllDigits(s, pre, p) ==
    LET q == Find(s, pre, p)
    IN  IF q = 0 THEN <<>>
        ELSE LET b == q + Len(pre)
                 e == DigitsEnd(s, b)
             IN  IF e = b THEN FindAllDigits(s, pre, q + 1)
                 ELSE <<SubSeq(s, b, e - 1)>> \o FindAllDigits(s, pre, e)

\* pat, where "." stands for any character but a newline, matches s at p.
MatchesAt(s, p, pat) ==
    /\ p + Len(pat) - 1 <= Len(s)
    /\ \A k \in 1..Len(pat) :
          LET c == SubSeq(s, p + k - 1, p + k - 1)
          IN  IF SubSeq(pat, k, k) = "." THEN c # "\n"
              ELSE c = SubSeq(pat, k, k)

\* re.findall(pre + '(' + head + '.*?)"', s): pre is literal, head may hold
\* "." wildcards, and the lazy .*? runs to the next double quote without
\* crossing a newline.  The captured group is head's match and what follows.
RECURSIVE FindAllQuoted(_, _, _, _)
FindAllQuoted(s, pre, head, p) ==
    LET q == Find(s, pre, p)
    IN  IF q = 0 THEN <<>>
        ELSE LET b     == q + Len(pre)
                 close == Find(s, "\"", b + Len(head))
                 ok    == /\ MatchesAt(s, b, head)
                          /\ close # 0
                          /\ ~Contains(SubSeq(s, b + Len(head), close - 1), "\n")
             IN  IF ok
                 THEN <<SubSeq(s, b, close - 1)>>
                      \o FindAllQuoted(s, pre, head, close + 1)
                 ELSE FindAllQuoted(s, pre, head, q + 1)

-----------------------------------------------------------------------------
(* JOB SOURCES.  An HTTP response is a record: kind "notjson" (a body that *)
(* .json() cannot decode), "dict" (a JSON object, in body), "list" (a JSON *)
(* array, in items) or "text" (a page, in text).  The step of an adapter   *)
(* on one raw item is [tag, rec]: "emit" appends rec to results, "skip" is *)
(* the continue, "raise" is an exception reaching the adapter's except.    *)

Job(title, company, location, type, experience, skills, url, source) ==
    [title |-> title, company |-> company, location |-> location,
     type |-> type, experience |-> experience, skills |-> skills,
     url |-> url, source |-> source]

NoJob == Job("", "", "", "", "", "", "", "")
Skip == [tag |-> "skip", rec |-> NoJob]
Raise == [tag |-> "raise", rec |-> NoJob]
Emit(job) == [tag |-> "emit", rec |-> job]

\* The records appended before the first raising step, in order.
RECURSIVE Collect(_)
Collect(steps) ==
    IF steps = <<>> \/ steps[1].tag = "raise" THEN <<>>
    ELSE (IF steps[1].tag = "emit" THEN <<steps[1].rec>> ELSE <<>>)
         \o Collect(Tail(steps))

\* remotive_item without the test of the publication date.
remotive_item_undated(job, clock) ==
    LET title == Get(job, "title", "")
        desc  == Get(job, "description", "")
        loc   == Get(job, "candidate_required_location", "")
        tags  == Get(job, "tags", <<>>)
    IN  IF title = None THEN Raise
        ELSE IF ~(matches_role(title, desc) /\ matches_location(loc)) THEN Skip
        ELSE IF tags = None THEN Raise
        ELSE Emit(Job(title, Get(job, "company_name", None), loc, "Remote",
                      "Entry", join(", ", tags), Get(job, "url", None),
                      "Remotive"))

\* search_remotive, the body of its loop for one item.
remotive_item(job, clock) ==
    LET title == Get(job, "title", "")
        desc  == Get(job, "description", "")
        loc   == Get(job, "candidate_required_location", "")
        date  == Get(job, "publication_date", None)
        tags  == Get(job, "tags", <<>>)
    IN  IF title = None THEN Raise
        ELSE IF ~(matches_role(title, desc) /\ matches_location(loc)
                  /\ within_hours(date, clock)) THEN Skip
        ELSE IF tags = None THEN Raise
        ELSE Emit(Job(title, Get(job, "company_name", None), loc, "Remote",
                      "Entry", join(", ", tags), Get(job, "url", None),
                      "Remotive"))

\* search_arbeitnow, the body of its loop for one item.
arbeitnow_item(job, clock) ==
    LET title == Get(job, "title", "")
        desc  == Get(job, "description", "")
        loc   == Get(job, "location", "")
        date  == Get(job, "created_at", None)
        tags  == Get(job, "tags", <<>>)
        level == Get(job, "experience_level", None)
    IN  IF title = None THEN Raise
        ELSE IF ~(matches_role(title, desc) /\ matches_location(loc)
                  /\ within_hours(date, clock)) THEN Skip
        ELSE IF tags = None THEN Raise
        ELSE Emit(Job(title, Get(job, "company_name", None), loc,
                      IF Get(job, "remote", FALSE) THEN "Remote"
                      ELSE "Hybrid/On-site",
                      IF Falsy(level) THEN "Entry" ELSE level,
                      join(", ", tags), Get(job, "url", None), "ArbeitNow"))

\* search_lever, the body of its inner loop for one posting of company c.
lever_item(job, c) ==
    LET title == Get(job, "text", "")
        desc  == Get(job, "description", "")
        cats  == Get(job, "categories", EmptyDict)
        loc   == Get(cats, "location", "Remote")
    IN  IF title = None THEN Raise
        ELSE IF ~(matches_role(title, desc) /\ matches_location(loc)) THEN Skip
        ELSE Emit(Job(title, capitalize(c), loc, "Unknown", "Not specified",
                      "N/A", Get(job, "hostedUrl", None), "Lever"))

\* search_greenhouse, the body of its inner loop for one job of board c.
greenhouse_item(job, c) ==
    LET title == Get(job, "title", "")
        place == Get(job, "location", EmptyDict)
        loc   == Get(place, "name", "")
        desc  == Get(job, "content", "")
    IN  IF title = None THEN Raise
        ELSE IF ~(matches_role(title, desc) /\ matches_location(loc)) THEN Skip
        ELSE Emit(Job(title, capitalize(c), loc, "Unknown", "Not specified",
                      "N/A", Get(job, "absolute_url", None), "Greenhouse"))


Steps(n, step(_)) == [k \in 1..n |-> step(k)]

\* search_remotive's try block on one response: .json() of an undecodable
\* body raises, .get of a JSON array raises, a missing "jobs" gives [].
search_remotive_on(resp, clock) ==
    IF resp.kind # "dict" THEN <<>>
    ELSE LET data == Get(resp.body, "jobs", <<>>)
         IN  Collect(Steps(Len(data), LAMBDA k : remotive_item(data[k], clock)))

search_arbeitnow_on(resp, clock) ==
    IF resp.kind # "dict" THEN <<>>
    ELSE LET data == Get(resp.body, "data", <<>>)
         IN  Collect(Steps(Len(data), LAMBDA k : arbeitnow_item(data[k], clock)))

\* search_lever's try block for company c: the body is iterated as it comes,
\* and iterating a JSON object yields its keys, on which .get raises.
search_lever_on(resp, c) ==
    IF resp.kind # "list" THEN <<>>
    ELSE Collect(Steps(Len(resp.items), LAMBDA k : lever_item(resp.items[k], c)))

search_greenhouse_on(resp, c) ==
    IF resp.kind # "dict" THEN <<>>
    ELSE LET data == Get(resp.body, "jobs", <<>>)
         IN  Collect(Steps(Len(data), LAMBDA k : greenhouse_item(data[k], c)))

\* search_linkedin's try block for one keyword: no filter is applied.
search_linkedin_on(resp, keyword) ==
    LET postings == FindAllDigits(resp.text, "/jobs/view/", 1)
    IN  [k \in 1..Len(postings) |->
            Job(keyword, "LinkedIn Listing", "India", "Unknown", "Entry",
                "N/A", "https://www.linkedin.com/jobs/view/" \o postings[k],
                "LinkedIn")]

indeed_item(titles, companies, locations, ids, i) ==
    IF ~matches_role(titles[i], titles[i]) THEN Skip
    ELSE Emit(Job(titles[i], companies[i],
                  IF i <= Len(locations) THEN locations[i] ELSE "India",
                  "Unknown", "Entry", "N/A",
                  "https://in.indeed.com/viewjob?jk=" \o ids[i], "Indeed"))

\* search_indeed's try block for one keyword (i is 1-based here).
search_indeed_on(resp) ==
    LET html      == resp.text
        titles    == FindAllQuoted(html, "jobTitle\":\"", "", 1)
        companies == FindAllQuoted(html, "companyName\":\"", "", 1)
        locations == FindAllQuoted(html, "formattedLocation\":\"", "", 1)
        ids       == FindAllQuoted(html, "\"jobkey\":\"", "", 1)
        n         == Min(Len(titles), Min(Len(companies), Len(ids)))
    IN  Collect(Steps(n, LAMBDA i :
                         indeed_item(titles, companies, locations, ids, i)))

naukri_item(titles, companies, links, i) ==
    IF ~matches_role(titles[i], titles[i]) THEN Skip
    ELSE Emit(Job(titles[i], companies[i], "India", "Unknown", "Entry",
                  "N/A", links[i], "Naukri"))

\* search_naukri's try block for one keyword.
search_naukri_on(resp) ==
    LET html      == resp.text
        titles    == FindAllQuoted(html, "title=\"", "", 1)
        companies == FindAllQuoted(html, "{\"name\":\"", "", 1)
        links     == FindAllQuoted(html, "href=\"", "https://www.naukri.com/", 1)
        n         == Min(Len(titles), Min(Len(companies), Len(links)))
    IN  Collect(Steps(n, LAMBDA i : naukri_item(titles, companies, links, i)))

LEVER_COMPANIES == << "netflix", "shopify", "datadog", "dropbox", "snyk" >>
GREENHOUSE_COMPANIES == << "cloudflare", "airbnb", "twilio" >>

\* The adapters in the order main() calls them, and how many requests each
\* makes (one per company or keyword).
Remotive == 1
ArbeitNow == 2
Lever == 3
Greenhouse == 4
LinkedIn == 5
Indeed == 6
Naukri == 7
NumAdapters == 7

Fetches(a) ==
    CASE a = Remotive   -> 1
      [] a = ArbeitNow  -> 1
      [] a = Lever      -> Len(LEVER_COMPANIES)
      [] a = Greenhouse -> Len(GREENHOUSE_COMPANIES)
      [] a = LinkedIn   -> Len(LINKEDIN_KEYWORDS)
      [] a = Indeed     -> Len(LINKEDIN_KEYWORDS)
      [] a = Naukri     -> Len(NAUKRI_KEYWORDS)

\* What adapter a appends to its results for the response to its k-th request.
AdapterOn(a, k, resp, clock) ==
    CASE a = Remotive   -> search_remotive_on(resp, clock)
      [] a = ArbeitNow  -> search_arbeitnow_on(resp, clock)
      [] a = Lever      -> search_lever_on(resp, LEVER_COMPANIES[k])
      [] a = Greenhouse -> search_greenhouse_on(resp, GREENHOUSE_COMPANIES[k])
      [] a = LinkedIn   -> search_linkedin_on(resp, LINKEDIN_KEYWORDS[k])
      [] a = Indeed     -> search_indeed_on(resp)
      [] a = Naukri     -> search_naukri_on(resp)

-----------------------------------------------------------------------------
(* The world outside: what the seven origins may answer.  Each menu is a   *)
(* sequence of response bodies; a request that gets no usable answer at    *)
(* all (connection error, timeout) is the action GetTimeout below.         *)

\* The most requests of one run that are answered with a body.
MaxLive == 2

\* The number of postings on the long LinkedIn page.
LongPage == 41

\* datetime.now(timezone.utc) as the run reads it.
utcnow == fromisoformat("2026-10-29T12:00:00+00:00")

Recent == "2026-10-29T09:30:00.000Z"
OnTheEdge == "2026-10-27T17:30:00+05:30"
TooOld == "2026-10-27T11:59:59Z"
NaiveStamp == "2026-10-29T10:00:00"

RemotiveResponses ==
    << [kind |-> "dict", body |-> [jobs |-> <<
          [title |-> "Junior DevOps Engineer", description |-> "Pipelines.",
           candidate_required_location |-> "Worldwide (Remote)",
           publication_date |-> Recent, company_name |-> "Acme",
           tags |-> <<"aws", "linux">>, url |-> "https://remotive.com/j/1"],
          [title |-> "Platform SRE", description |-> "Join us as a Cloud Engineer",
           candidate_required_location |-> "India",
           publication_date |-> OnTheEdge, company_name |-> "Bolt"],
          [title |-> "DevOps Engineer", candidate_required_location |-> "Remote",
           publication_date |-> TooOld, url |-> "https://remotive.com/j/3"],
          [title |-> "DevOps Engineer", candidate_required_location |-> "Remote",
           publication_date |-> NaiveStamp, url |-> "https://remotive.com/j/4"],
          [title |-> "Cloud Engineer", candidate_required_location |-> "Berlin",
           publication_date |-> Recent, url |-> "https://remotive.com/j/5"],
          [title |-> "Pastry Chef", candidate_required_location |-> "Remote",
           publication_date |-> Recent, url |-> "https://remotive.com/j/6"] >>]],
       [kind |-> "dict", body |-> [jobs |-> <<
          [title |-> "Infrastructure Engineer", description |-> None,
           candidate_required_location |-> "Kochi",
           publication_date |-> Recent, company_name |-> "Cove",
           tags |-> <<>>, url |-> ""],
          [title |-> None, url |-> "https://remotive.com/j/8"],
          [title |-> "Cloud Engineer", candidate_required_location |-> "Remote",
           publication_date |-> Recent, url |-> "https://remotive.com/j/9"] >>]],
       [kind |-> "notjson"] >>

ArbeitnowResponses ==
    << [kind |-> "dict", body |-> [data |-> <<
          [title |-> "Cloud Support Associate", description |-> "",
           location |-> "Chennai", created_at |-> Recent, remote |-> FALSE,
           company_name |-> "Dune", tags |-> <<"support">>,
           url |-> "https://www.arbeitnow.com/view/1"],
          [title |-> "Entry Level DevOps", location |-> "Remote, EU",
           created_at |-> Recent, remote |-> TRUE,
           experience_level |-> "Junior", company_name |-> "Echo",
           url |-> "https://www.arbeitnow.com/view/2"],
          [title |-> "Cloud Engineer", location |-> "Mysore",
           created_at |-> "3 days ago",
           url |-> "https://www.arbeitnow.com/view/3"],
          [title |-> "Cloud Engineer", location |-> "Mysore",
           created_at |-> Recent, tags |-> None,
           url |-> "https://www.arbeitnow.com/view/4"],
          [title |-> "DevOps Engineer", location |-> "Remote",
           created_at |-> Recent,
           url |-> "https://www.arbeitnow.com/view/5"] >>]],
       [kind |-> "dict", body |-> [message |-> "rate limited"]] >>

LeverResponses ==
    << [kind |-> "list", items |-> <<
          [text |-> "DevOps Engineer", description |-> "On call.",
           categories |-> [location |-> "Bangalore", team |-> "Infra"],
           hostedUrl |-> "https://jobs.lever.co/p/1"],
          [text |-> "Senior Cloud Engineering Lead", description |-> "",
           categories |-> [team |-> "Infra"]],
          [text |-> "Cloud Engineer",
           categories |-> [location |-> "Berlin"],
           hostedUrl |-> "https://jobs.lever.co/p/3"] >>],
       [kind |-> "dict", body |-> [ok |-> FALSE, error |-> "Document not found"]] >>

GreenhouseResponses ==
    << [kind |-> "dict", body |-> [jobs |-> <<
          [title |-> "Infrastructure Engineer",
           location |-> [name |-> "Remote - India"],
           absolute_url |-> "https://boards.greenhouse.io/j/1"],
          [title |-> "Cloud Engineer",
           absolute_url |-> "https://boards.greenhouse.io/j/2"],
          [title |-> "Cloud Operations Engineer", content |-> "Run it.",
           location |-> [name |-> "Calicut"]] >>]],
       [kind |-> "notjson"] >>

\* A page listing n postings, numbered 1001 upward.
RECURSIVE LinkedInPage(_)
LinkedInPage(n) ==
    IF n = 0 THEN "<ul>"
    ELSE LinkedInPage(n - 1) \o "<a href=\"https://in.linkedin.com/jobs/view/"
         \o ToString(1000 + n) \o "?refId=x\">"

LinkedInResponses ==
    << [kind |-> "text", text |-> LinkedInPage(2) \o "<a href=\"/jobs/view/\">"],
       [kind |-> "text", text |-> LinkedInPage(LongPage)] >>

IndeedResponses ==
    << [kind |-> "text", text |->
          "{\"jobkey\":\"a1\",\"jobTitle\":\"DevOps Engineer\","
          \o "\"companyName\":\"Fern\",\"formattedLocation\":\"Berlin\"}\n"
          \o "{\"jobkey\":\"b2\",\"jobTitle\":\"Line Cook\","
          \o "\"companyName\":\"Grill\"}\n"
          \o "{\"jobkey\":\"c3\",\"jobTitle\":\"AWS Cloud Engineer\","
          \o "\"companyName\":\"Hive\"}\n"
          \o "{\"jobkey\":\"d4\",\"jobTitle\":\"Cloud Engineer\"}"],
       [kind |-> "text", text |-> "<html>Checking your browser</html>"] >>

NaukriResponses ==
    << [kind |-> "text", text |->
          "<a title=\"Cloud Engineer\" href=\"https://www.naukri.com/job-1\">"
          \o "{\"name\":\"Iris\"}"
          \o "<a title=\"Help\" href=\"https://help.naukri.com/faq\">"
          \o "<a title=\"DevOps Engineer\" href=\"https://www.naukri.com/job-2\">"
          \o "{\"name\":\"Jade\"}{\"name\":\"Kite\"}"
          \o "<a title=\"Cloud Associate\" href=\"https://www.naukri.com/job-3\">"],
       [kind |-> "text", text |-> "<a title=\"Login\" href=\"https://www.naukri.com/login\">"] >>

\* The bodies origin a may answer with.
Responses(a) ==
    CASE a = Remotive   -> RemotiveResponses
      [] a = ArbeitNow  -> ArbeitnowResponses
      [] a = Lever      -> LeverResponses
      [] a = Greenhouse -> GreenhouseResponses
      [] a = LinkedIn   -> LinkedInResponses
      [] a = Indeed     -> IndeedResponses
      [] a = Naukri     -> NaukriResponses

-----------------------------------------------------------------------------
(* BLOCK KIT JOB CARD TEMPLATE                                             *)

\* What an f-string writes for a field: the text itself, "None" for None.
Str(x) == IF x = None THEN "None" ELSE x

\* build_job_block(job).  Two characters of the template cannot be written
\* in a string here: its em dash is written "--" and the backquotes around
\* the company are written as apostrophes.
build_job_block(job) ==
    << [type |-> "section",
        text |-> [type |-> "mrkdwn",
                  text |-> "*" \o Str(job.title) \o "* -- '"
                           \o Str(job.company)
                           \o "'\n*Location:* " \o Str(job.location)
                           \o " | *Type:* " \o Str(job.type)
                           \o "\n*Experience:* " \o Str(job.experience)
                           \o "\n*Skills:* " \o Str(job.skills)]],
       [type |-> "actions",
        elements |-> << [type |-> "button",
                         text |-> [type |-> "plain_text", text |-> "View Job"],
                         url |-> job.url] >>],
       [type |-> "divider"] >>

\* main(): blocks = []; for job in jobs: blocks += build_job_block(job)
RECURSIVE build_blocks(_)
build_blocks(js) ==
    IF js = <<>> THEN <<>>
    ELSE build_job_block(Head(js)) \o build_blocks(Tail(js))

\* aggregate with the operands of + exchanged.
aggregate_reversed(sofar, returned) == returned \o sofar

\* main(): the operands of the + chain, joined left to right.
aggregate(sofar, returned) == sofar \o returned

-----------------------------------------------------------------------------
(* SLACK SENDERS                                                           *)

\* The header text (its emoji left out) and the empty-run text.
HeaderText == "*Daily Cloud & DevOps Job Alerts*\nJobs posted in last 48 hours."
NoJobsText == "No matching jobs found in last 48 hours."

\* main() passes chunk_size=8, which is also the parameter's default.
DefaultChunk == 8

\* page_blocks with the slice one block short: blocks[i:i + chunk_size - 1].
page_blocks_short(bs, at, size) == SubSeq(bs, at + 1, Min(at + size - 1, Len(bs)))

\* blocks[i:i + chunk_size], i counted from 0 as in the source.
page_blocks(bs, at, size) == SubSeq(bs, at + 1, Min(at + size, Len(bs)))

page_payload(ts, bs, at, size) ==
    [thread_ts |-> ts, blocks |-> page_blocks(bs, at, size)]

\* What the channel may answer to a POST.  raises: requests.post raised
\* (connection error); else status and body: kind "dict" is a JSON object,
\* "notjson" a body r.json() cannot decode (Slack's plain "ok").
PostResponses ==
    << [raises |-> FALSE, status |-> 200, kind |-> "dict",
        body |-> [ok |-> TRUE, ts |-> "1761739200.000100"]],
       [raises |-> FALSE, status |-> 200, kind |-> "dict", body |-> [ok |-> TRUE]],
       [raises |-> FALSE, status |-> 200, kind |-> "notjson", body |-> EmptyDict],
       [raises |-> FALSE, status |-> 500, kind |-> "notjson", body |-> EmptyDict],
       [raises |-> TRUE, status |-> 0, kind |-> "notjson", body |-> EmptyDict] >>

\* No response received (yet).
NoResponse == [raises |-> FALSE, status |-> 0, kind |-> "none", body |-> EmptyDict]

\* The configured webhook, when SLACK_WEBHOOK_URL is set.
HookUrl == "https://hooks.slack.com/services/T0/B0/x"

\* The most cards and the largest chunk_size of a direct call of
\* send_blockkit_paginated.
MaxCards == 4
MaxChunk == 9

\* The records a direct caller renders: the first n of these.
SampleJobs ==
    search_remotive_on(RemotiveResponses[1], utcnow)
    \o search_lever_on(LeverResponses[1], "netflix")
    \o search_indeed_on(IndeedResponses[1])

-----------------------------------------------------------------------------
(* The run                                                                 *)

VARIABLES
    entry,      \* the function called: "main" or "send_blockkit_paginated"
    webhook,    \* SLACK_WEBHOOK: the URL, or None when the variable is unset
    pc,         \* "start": the call is about to be made;
                \* "get": an adapter's GET is in flight; "post_nojobs",
                \* "post_header", "post_page": that POST is in flight;
                \* "done": returned; "crashed": an exception left the program
    ad,         \* the adapter running (1..7), and
    sub,        \*   the index of its request in flight
    live,       \* requests answered with a body so far
    answers,    \* answers[a][k]: index in Responses(a) of the body received
                \*   for request k of adapter a, 0 when it raised
    results,    \* the running adapter's results list
    jobs,       \* main's aggregate of the adapters that have returned
    contrib,    \* contrib[a]: the list adapter a returned
    blocks,     \* the blocks handed to send_blockkit_paginated
    chunk_size, \* its chunk_size
    r,          \* the header's response
    thread_ts,  \* r.json().get("ts")
    i,          \* the loop variable of the page loop
    posts       \* every call requests.post(url, json=...) made, in order

vars == << entry, webhook, pc, ad, sub, live, answers, results, jobs, contrib,
           blocks, chunk_size, r, thread_ts, i, posts >>

Adapters == 1..NumAdapters

NoAnswers == [a \in Adapters |-> [k \in 1..Fetches(a) |-> 0]]

\* slack_post(payload) up to the moment requests.post blocks: the call is
\* made; with no URL, requests raises MissingSchema at once and nothing
\* catches it, else the request is in flight at waiting.
slack_post(payload, waiting) ==
    /\ posts' = Append(posts, [url |-> webhook, json |-> payload])
    /\ pc' = IF webhook = None THEN "crashed" ELSE waiting

\* send_blockkit_paginated(bs, size) up to its first blocking call.
send_blockkit_paginated(bs, size) ==
    /\ blocks' = bs
    /\ chunk_size' = size
    /\ slack_post([text |-> HeaderText], "post_header")

\* deliver without main's test of the empty aggregate.
deliver_unconditionally(js) ==
    send_blockkit_paginated(build_blocks(js), DefaultChunk)

\* main() after the aggregate js is complete.
deliver(js) ==
    IF js = <<>>
    THEN /\ slack_post([text |-> NoJobsText], "post_nojobs")
         /\ UNCHANGED << blocks, chunk_size >>
    ELSE send_blockkit_paginated(build_blocks(js), DefaultChunk)

\* main() is about to run.
InitMain ==
    /\ entry = "main"
    /\ blocks = <<>> /\ chunk_size = DefaultChunk

\* send_blockkit_paginated(blocks, chunk_size) is about to run, called on
\* the cards of the first n sample records.
InitSend ==
    /\ entry = "send_blockkit_paginated"
    /\ \E n \in 0..MaxCards, size \in 1..MaxChunk :
          /\ blocks = build_blocks(SubSeq(SampleJobs, 1, n))
          /\ chunk_size = size

Init ==
    /\ webhook \in {None, HookUrl}
    /\ pc = "start" /\ ad = 1 /\ sub = 1
    /\ live = 0 /\ answers = NoAnswers
    /\ results = <<>> /\ jobs = <<>>
    /\ contrib = [a \in Adapters |-> <<>>]
    /\ r = NoResponse /\ thread_ts = None /\ i = 0
    /\ posts = <<>>
    /\ (InitMain \/ InitSend)

\* The called function runs to its first blocking call: main() to
\* search_remotive's GET, send_blockkit_paginated to the header's POST.
Enter ==
    /\ pc = "start"
    /\ IF entry = "main"
       THEN pc' = "get" /\ UNCHANGED << blocks, chunk_size, posts >>
       ELSE send_blockkit_paginated(blocks, chunk_size)
    /\ UNCHANGED << entry, webhook, ad, sub, live, answers, results, jobs,
                    contrib, r, thread_ts, i >>

\* The running adapter has handled request sub, its results now being new:
\* it goes on to its next request, or returns new to main, which joins it to
\* the aggregate and calls the next adapter or, after the last, delivers.
advance(new) ==
    IF sub < Fetches(ad)
    THEN /\ sub' = sub + 1
         /\ results' = new
         /\ UNCHANGED << pc, ad, jobs, contrib, blocks, chunk_size, posts >>
    ELSE /\ results' = <<>>
         /\ contrib' = [contrib EXCEPT ![ad] = new]
         /\ jobs' = aggregate(jobs, new)
         /\ IF ad < NumAdapters
            THEN /\ ad' = ad + 1 /\ sub' = 1
                 /\ UNCHANGED << pc, blocks, chunk_size, posts >>
            ELSE /\ UNCHANGED << ad, sub >>
                 /\ deliver(aggregate(jobs, new))

\* requests.get(..., timeout=15) returns a body.
GetRespond ==
    /\ pc = "get" /\ live < MaxLive
    /\ \E k \in 1..Len(Responses(ad)) :
          /\ answers' = [answers EXCEPT ![ad][sub] = k]
          /\ advance(results \o AdapterOn(ad, sub, Responses(ad)[k], utcnow))
    /\ live' = live + 1
    /\ UNCHANGED << entry, webhook, r, thread_ts, i >>

\* requests.get raises (the 15 s timeout, or a connection error): the
\* adapter's bare except swallows it.
GetTimeout ==
    /\ pc = "get"
    /\ advance(results)
    /\ UNCHANGED << entry, webhook, live, answers, r, thread_ts, i >>

\* The "no matching jobs" POST returns or raises; main() returns after it.
NoJobsReturn ==
    /\ pc = "post_nojobs"
    /\ \E k \in 1..Len(PostResponses) :
          pc' = IF PostResponses[k].raises THEN "crashed" ELSE "done"
    /\ UNCHANGED << entry, webhook, ad, sub, live, answers, results, jobs,
                    contrib, blocks, chunk_size, r, thread_ts, i, posts >>

\* The page loop at offset at, thread_ts being ts: send the page there, or
\* fall out of the loop.
page_loop(ts, at) ==
    IF at < Len(blocks)
    THEN slack_post(page_payload(ts, blocks, at, chunk_size), "post_page")
    ELSE pc' = "done" /\ UNCHANGED posts

\* The header POST returns or raises.
HeaderReturn ==
    /\ pc = "post_header"
    /\ \E k \in 1..Len(PostResponses) :
          LET resp == PostResponses[k]
          IN  IF resp.raises
              THEN pc' = "crashed" /\ UNCHANGED << r, thread_ts, posts >>
              ELSE /\ r' = resp
                   /\ IF resp.status # 200
                      THEN pc' = "done" /\ UNCHANGED << thread_ts, posts >>
                      ELSE IF resp.kind # "dict"
                      THEN pc' = "crashed" /\ UNCHANGED << thread_ts, posts >>
                      ELSE /\ thread_ts' = Get(resp.body, "ts", None)
                           /\ page_loop(Get(resp.body, "ts", None), 0)
    /\ i' = 0
    /\ UNCHANGED << entry, webhook, ad, sub, live, answers, results, jobs,
                    contrib, blocks, chunk_size >>

\* A page POST returns or raises; slack_post prints on a status other than
\* 200 and the loop goes on.
PageReturn ==
    /\ pc = "post_page"
    /\ \E k \in 1..Len(PostResponses) :
          IF PostResponses[k].raises
          THEN pc' = "crashed" /\ UNCHANGED << i, posts >>
          ELSE /\ i' = i + chunk_size
               /\ page_loop(thread_ts, i + chunk_size)
    /\ UNCHANGED << entry, webhook, ad, sub, live, answers, results, jobs,
                    contrib, blocks, chunk_size, r, thread_ts >>

Next == Enter \/ GetRespond \/ GetTimeout \/ NoJobsReturn \/ HeaderReturn \/ PageReturn

Spec == Init /\ [][Next]_vars

\* The program takes its own steps, and requests.get's timeout raises when
\* the peer stays silent.  requests.post is called without a timeout: nothing
\* makes a POST return.
FairSpec == Spec /\ WF_vars(Enter) /\ WF_vars(GetTimeout)

-----------------------------------------------------------------------------
(* Vocabulary of the properties                                            *)

IsPage(call) == "blocks" \in DOMAIN call.json
IsText(call, t) == "text" \in DOMAIN call.json /\ call.json.text = t

\* The page requests made so far, in order.
Pages == SelectSeq(posts, IsPage)

Finished == pc \in {"done", "crashed"}

\* main has every adapter's list (the GET phase is over).
Aggregated == entry = "main" /\ pc \notin {"start", "get"}

\* The header came back with status 200 and a JSON object.
HeaderSucceeded == r.status = 200 /\ r.kind = "dict"

\* ceil(n / p)
CeilDiv(n, p) == (n + p - 1) \div p

RECURSIVE Flatten(_)
Flatten(seqs) ==
    IF seqs = <<>> THEN <<>> ELSE Head(seqs) \o Flatten(Tail(seqs))

\* Adapter a got no body for any of its requests.
AllFailed(a) == \A k \in 1..Fetches(a) : answers[a][k] = 0

-----------------------------------------------------------------------------
(* Delivery order                                                          *)

\* C1: no page request (a payload with blocks and thread_ts) is made before
\* the header request has returned with status 200 and a context identifier,
\* and when the header returns another status no page request is made at all.
C1_PagesNeedHeaderContext ==
    /\ Pages # <<>> =>
          /\ HeaderSucceeded
          /\ "ts" \in DOMAIN r.body
          /\ \A k \in 1..Len(Pages) : Pages[k].json.thread_ts # None
    /\ (r # NoResponse /\ r.status # 200) => Pages = <<>>

\* C2: when main's aggregate is empty the run makes exactly one notification
\* request, the plain "no matching jobs" text: no header, no page.
C2_EmptyRunSendsOneNotice ==
    (Aggregated /\ jobs = <<>>) =>
        /\ Len(posts) = 1
        /\ IsText(posts[1], NoJobsText)
        /\ Pages = <<>>
        /\ \A k \in 1..Len(posts) : ~IsText(posts[k], HeaderText)

\* An empty run whose one notice was sent and answered.
C2_Witness ==
    /\ Aggregated /\ jobs = <<>> /\ pc = "done"
    /\ Len(posts) = 1 /\ posts[1].url = HookUrl

\* C3: main's aggregate is the seven returned lists joined in the order
\* remotive, arbeitnow, lever, greenhouse, linkedin, indeed, naukri, nothing
\* dropped or merged; an adapter whose requests fail never ends the run (an
\* exception can leave the program only once delivery has begun), and the
\* lists of the adapters before and after it are in the aggregate.
C3_AggregateIsConcatenation ==
    entry = "main" =>
        /\ jobs = Flatten([a \in 1..(IF Aggregated THEN NumAdapters ELSE ad - 1)
                              |-> contrib[a]])
        /\ Aggregated =>
              Len(jobs) = Len(contrib[Remotive]) + Len(contrib[ArbeitNow])
                          + Len(contrib[Lever]) + Len(contrib[Greenhouse])
                          + Len(contrib[LinkedIn]) + Len(contrib[Indeed])
                          + Len(contrib[Naukri])
        /\ pc = "crashed" => posts # <<>>
        /\ \A a \in Adapters : (a < ad /\ AllFailed(a)) => contrib[a] = <<>>

\* Adapters on both sides of one that failed throughout have their records
\* in the finished aggregate.
C3_Witness ==
    /\ Aggregated
    /\ \E a, b, c \in Adapters :
          /\ a < b /\ b < c
          /\ contrib[a] # <<>> /\ AllFailed(b) /\ contrib[c] # <<>>
          /\ Len(jobs) = Len(contrib[a]) + Len(contrib[c])

\* C4: once the header has succeeded, no failing page send (a status other
\* than 200, or a transport error) ends the delivery: when the run is over
\* as many page requests were made as there are pages.
C4_EveryPageAttempted ==
    (Finished /\ HeaderSucceeded) =>
        Len(Pages) = CeilDiv(Len(blocks), chunk_size)

\* C5: with SLACK_WEBHOOK_URL unset the aggregation still completes and each
\* delivery attempt is a no-op: requests.post is not called and no exception
\* leaves the program.
C5_NoWebhookIsNoOp ==
    (entry = "main" /\ webhook = None) => (posts = <<>> /\ pc # "crashed")

-----------------------------------------------------------------------------
(* What reaches the aggregate                                              *)

\* Every record main holds, returned or still in the running adapter.
Held == jobs \o results

\* C6: every record of the aggregate has a non-empty posting URL.
C6_EveryRecordHasUrl ==
    \A n \in 1..Len(Held) : ~Falsy(Held[n].url)

\* Some raw item of a body that origin a answered with satisfies P.  The
\* items are the list under key (a JSON object) or the body itself (a list).
SomeItem(a, key, P(_)) ==
    \E k \in 1..Fetches(a) :
        /\ answers[a][k] # 0
        /\ LET resp  == Responses(a)[answers[a][k]]
               items == IF resp.kind = "dict" THEN Get(resp.body, key, <<>>)
                        ELSE IF resp.kind = "list" THEN resp.items ELSE <<>>
           IN  \E n \in 1..Len(items) : P(items[n])

\* Record rec passed matches_role on the title and description it came
\* with: a raw item of its origin with this title, location and URL does
\* (the scraped origins have no description: Indeed and Naukri pass the
\* title twice, LinkedIn's records carry the searched keyword as title).
PassedRole(rec) ==
    CASE rec.source = "Remotive" ->
           SomeItem(Remotive, "jobs", LAMBDA it :
               /\ Get(it, "title", "") = rec.title /\ rec.title # None
               /\ Get(it, "candidate_required_location", "") = rec.location
               /\ Get(it, "url", None) = rec.url
               /\ matches_role(rec.title, Get(it, "description", "")))
      [] rec.source = "ArbeitNow" ->
           SomeItem(ArbeitNow, "data", LAMBDA it :
               /\ Get(it, "title", "") = rec.title /\ rec.title # None
               /\ Get(it, "location", "") = rec.location
               /\ Get(it, "url", None) = rec.url
               /\ matches_role(rec.title, Get(it, "description", "")))
      [] rec.source = "Lever" ->
           SomeItem(Lever, "", LAMBDA it :
               /\ Get(it, "text", "") = rec.title /\ rec.title # None
               /\ Get(it, "hostedUrl", None) = rec.url
               /\ matches_role(rec.title, Get(it, "description", "")))
      [] rec.source = "Greenhouse" ->
           SomeItem(Greenhouse, "jobs", LAMBDA it :
               /\ Get(it, "title", "") = rec.title /\ rec.title # None
               /\ Get(it, "absolute_url", None) = rec.url
               /\ matches_role(rec.title, Get(it, "content", "")))
      [] rec.source = "LinkedIn" -> matches_role(rec.title, None)
      [] OTHER -> matches_role(rec.title, rec.title)

\* Record rec passed within_hours on the date it came with.
PassedWindow(rec) ==
    CASE rec.source = "Remotive" ->
           SomeItem(Remotive, "jobs", LAMBDA it :
               /\ Get(it, "title", "") = rec.title
               /\ Get(it, "candidate_required_location", "") = rec.location
               /\ Get(it, "url", None) = rec.url
               /\ within_hours(Get(it, "publication_date", None), utcnow))
      [] rec.source = "ArbeitNow" ->
           SomeItem(ArbeitNow, "data", LAMBDA it :
               /\ Get(it, "title", "") = rec.title
               /\ Get(it, "location", "") = rec.location
               /\ Get(it, "url", None) = rec.url
               /\ within_hours(Get(it, "created_at", None), utcnow))
      [] OTHER -> TRUE

\* The origins that supply a date, and those that supply a location: the
\* fields the adapters read from what the origin sent.
DatedSources == {"Remotive", "ArbeitNow"}
LocatedSources == {"Remotive", "ArbeitNow", "Lever", "Greenhouse", "Indeed"}

\* The adapters that test the location they read.
LocationFiltered == {"Remotive", "ArbeitNow", "Lever", "Greenhouse"}

\* C7 as claimed: every record of the aggregate satisfies matches_role, and
\* every record of an origin that supplies a location or a date satisfies
\* matches_location on that location and within_hours on that date.
C7_AllApplicableFilters ==
    \A n \in 1..Len(Held) :
        /\ PassedRole(Held[n])
        /\ Held[n].source \in LocatedSources => matches_location(Held[n].location)
        /\ Held[n].source \in DatedSources => PassedWindow(Held[n])

\* C7, amended: every record of the aggregate satisfies matches_role; every
\* record of remotive, arbeitnow, lever and greenhouse satisfies
\* matches_location on its location; every record of remotive and arbeitnow
\* satisfied within_hours on its date when it was examined.  Indeed's scraped
\* location is carried unexamined.
C7_FiltersTheAdaptersApply ==
    \A n \in 1..Len(Held) :
        /\ PassedRole(Held[n])
        /\ Held[n].source \in LocationFiltered => matches_location(Held[n].location)
        /\ Held[n].source \in DatedSources => PassedWindow(Held[n])

\* The aggregate holds a record of remotive that matched on its description
\* alone, and a record of Indeed whose location matches nothing.
C7_Witness ==
    /\ Aggregated
    /\ \E n \in 1..Len(jobs) :
          /\ jobs[n].source = "Remotive"
          /\ ~matches_role(jobs[n].title, None)
    /\ \E n \in 1..Len(jobs) :
          /\ jobs[n].source = "Indeed"
          /\ ~matches_location(jobs[n].location)

\* C8: at most 40 records are rendered and delivered: the blocks main hands
\* to delivery number at most 3 x 40, as do the blocks sent in pages.
C8_AtMostFortyRecords ==
    entry = "main" =>
        /\ Len(blocks) <= 3 * 40
        /\ Len(Flatten([k \in 1..Len(Pages) |-> Pages[k].json.blocks])) <= 3 * 40

-----------------------------------------------------------------------------
(* Pagination and termination                                              *)

\* The cards of the records js are three blocks each, in record order: a
\* section, an actions block carrying the record's URL, a divider.
CardsOf(bs, js) ==
    /\ Len(bs) = 3 * Len(js)
    /\ \A n \in 1..Len(js) :
          /\ bs[3 * n - 2].type = "section"
          /\ Contains(bs[3 * n - 2].text.text, Str(js[n].title))
          /\ bs[3 * n - 1].type = "actions"
          /\ bs[3 * n - 1].elements[1].url = js[n].url
          /\ bs[3 * n].type = "divider"

\* C9: n >= 1 records give 3n blocks (section, actions, divider per record,
\* in record order); the pages sent are the consecutive slices of chunk_size
\* blocks, in order, each non-empty and no longer than chunk_size, all with
\* the captured thread_ts; and when the header succeeded and every send
\* returned there are ceil(3n / chunk_size) of them, which joined give back
\* the blocks.
C9_PagesAreTheSlices ==
    /\ (Aggregated /\ jobs # <<>>) => CardsOf(blocks, jobs)
    /\ \A k \in 1..Len(Pages) :
          LET page == Pages[k].json.blocks
          IN  /\ page = SubSeq(blocks, (k - 1) * chunk_size + 1,
                               Min(k * chunk_size, Len(blocks)))
              /\ Len(page) >= 1 /\ Len(page) <= chunk_size
              /\ Pages[k].json.thread_ts = thread_ts
    /\ (pc = "done" /\ HeaderSucceeded) =>
          /\ Len(Pages) = CeilDiv(Len(blocks), chunk_size)
          /\ Flatten([k \in 1..Len(Pages) |-> Pages[k].json.blocks]) = blocks

\* A finished run of main with three records or more, delivered under the
\* returned identifier in two pages or more, the last one short.
C9_Witness ==
    /\ Aggregated /\ pc = "done" /\ HeaderSucceeded
    /\ Len(jobs) >= 3 /\ thread_ts # None
    /\ Len(Pages) >= 2
    /\ Len(Pages[Len(Pages)].json.blocks) < chunk_size

\* C10: every network call is bounded by a timeout, so whatever the peers do
\* the one pass of main eventually ends.
C10_RunTerminates == (entry = "main") => <>Finished

====
